---------------------------- MODULE Spec2Model ----------------------------
(***************************************************************************)
(* A model of the Graphormer graph encoder layer                           *)
(* (Graphormer/graphormer/modules/graphormer_graph_encoder_layer.py) and   *)
(* of the LRGB evaluation script (eval_graphormer_lrgb.py).                *)
(*                                                                         *)
(* Tensors.  A sequence representation is a T x B x C tensor; the model    *)
(* keeps T = B = 1 and C = embedding_dim = 2, so a tensor is a pair of     *)
(* integers.  The feed-forward width (ffn_embedding_dim) is 2 as well.     *)
(* Values live on the integer grid: nn.Linear and the residual adds are    *)
(* exact there; nn.LayerNorm over two features is the sign of their        *)
(* difference (up to eps); nn.Dropout with p = 0.5 scales kept elements by *)
(* 1/(1-p) = 2; the smooth activations are rounded to the nearest grid     *)
(* point.                                                                  *)
(*                                                                         *)
(* A call of __init__ or forward is one atomic action (the code has no     *)
(* suspension point); inside the action the statements of the method act   *)
(* in source order on a frame, and every call the method makes on a        *)
(* collaborator is appended to the frame's trace.                          *)
(***************************************************************************)
EXTENDS Integers, Sequences, FiniteSets, TLC

\* Largest magnitude of a component of an input tensor.
MaxVal == 1

None == "None"

----------------------------------------------------------------------------
(* Tensor arithmetic on pairs of integers.                                 *)

Zero == <<0, 0>>

Add(a, b) == <<a[1] + b[1], a[2] + b[2]>>

Sgn(n) == IF n > 0 THEN 1 ELSE IF n < 0 THEN -1 ELSE 0

Max(a, b) == IF a >= b THEN a ELSE b

\* Tensors a caller passes to forward.
Inputs == {<<a, b>> : a \in -MaxVal..MaxVal, b \in -MaxVal..MaxVal}

\* The Bernoulli keep-masks nn.Dropout may sample for a two-element tensor.
KeepMasks == [1..2 -> BOOLEAN]

AllKept == [i \in 1..2 |-> TRUE]

----------------------------------------------------------------------------
(* torch.nn modules the layer owns.                                        *)

\* nn.Linear(in, out): y = W x + b.
LinearA == [kind |-> "Linear", W |-> <<<<1, 0>>, <<1, 1>>>>, b |-> <<0, 0>>]

LinearB == [kind |-> "Linear", W |-> <<<<1, -1>>, <<-1, 0>>>>, b |-> <<0, 1>>]

Linear(m, x) ==
    << m.W[1][1] * x[1] + m.W[1][2] * x[2] + m.b[1],
       m.W[2][1] * x[1] + m.W[2][2] * x[2] + m.b[2] >>

\* nn.LayerNorm(embedding_dim): weight starts at ones, bias at zeros.
NewLayerNorm == [kind |-> "LayerNorm", weight |-> <<1, 1>>, bias |-> <<0, 0>>]

\* nn.Identity(), which a test puts in place of a normalization module.
IdentityNorm == [kind |-> "Identity", weight |-> <<1, 1>>, bias |-> <<0, 0>>]

\* Calling a normalization module.  Over two features (x - mean) / std is the
\* sign of the difference of the two.
Norm(m, x) ==
    IF m.kind = "Identity" THEN x
    ELSE << Sgn(x[1] - x[2]) * m.weight[1] + m.bias[1],
            Sgn(x[2] - x[1]) * m.weight[2] + m.bias[2] >>

\* The dropout probabilities a layer is configured with.
Rates == {"0.0", "0.5"}

NewDropout(p) == [kind |-> "Dropout", p |-> p]

\* Whether a call of the dropout module m samples a mask.
Samples(m, training) == training /\ m.p # "0.0"

\* Calling nn.Dropout: identity in evaluation mode or with p = 0, else the
\* kept elements scaled by 1/(1-p) and the others zeroed.
Dropout(m, training, x, keep) ==
    IF Samples(m, training)
    THEN << IF keep[1] THEN 2 * x[1] ELSE 0, IF keep[2] THEN 2 * x[2] ELSE 0 >>
    ELSE x

\* The keep-masks a call of m can draw: none is drawn when m does not sample.
Draws(m, training) == IF Samples(m, training) THEN KeepMasks ELSE {AllKept}

----------------------------------------------------------------------------
(* Activation dispatch.                                                    *)

ActivationNames == {"relu", "gelu", "tanh", "linear", "swish"}

Raise(type, template, arg) == <<type, template, arg>>

NoError == <<>>

get_activation_fn_linear_as_relu(activation) ==
    IF activation = "relu" THEN [fn |-> "F.relu", raised |-> NoError]
    ELSE IF activation = "gelu" THEN [fn |-> "F.gelu", raised |-> NoError]
    ELSE IF activation = "tanh" THEN [fn |-> "torch.tanh", raised |-> NoError]
    ELSE IF activation = "linear" THEN [fn |-> "F.relu", raised |-> NoError]
    ELSE IF activation = "swish" THEN [fn |-> "F.silu", raised |-> NoError]
    ELSE [fn |-> None,
          raised |-> Raise("RuntimeError", "--activation-fn {} not supported",
                           activation)]

get_activation_fn_default_relu(activation) ==
    IF activation = "relu" THEN [fn |-> "F.relu", raised |-> NoError]
    ELSE IF activation = "gelu" THEN [fn |-> "F.gelu", raised |-> NoError]
    ELSE IF activation = "tanh" THEN [fn |-> "torch.tanh", raised |-> NoError]
    ELSE IF activation = "linear" THEN [fn |-> "lambda x: x", raised |-> NoError]
    ELSE IF activation = "swish" THEN [fn |-> "F.silu", raised |-> NoError]
    ELSE [fn |-> "F.relu", raised |-> NoError]

get_activation_fn(activation) ==
    IF activation = "relu" THEN [fn |-> "F.relu", raised |-> NoError]
    ELSE IF activation = "gelu" THEN [fn |-> "F.gelu", raised |-> NoError]
    ELSE IF activation = "tanh" THEN [fn |-> "torch.tanh", raised |-> NoError]
    ELSE IF activation = "linear" THEN [fn |-> "lambda x: x", raised |-> NoError]
    ELSE IF activation = "swish" THEN [fn |-> "F.silu", raised |-> NoError]
    ELSE [fn |-> None,
          raised |-> Raise("RuntimeError", "--activation-fn {} not supported",
                           activation)]

\* The selected function on one element, rounded to the integer grid:
\* gelu(n) and silu(n) round to n for n >= 1 and to 0 for n <= 0, tanh(n)
\* rounds to the sign of n.
Elementwise(fn, n) ==
    CASE fn = "F.relu" -> Max(n, 0)
      [] fn = "F.gelu" -> IF n >= 1 THEN n ELSE 0
      [] fn = "torch.tanh" -> Sgn(n)
      [] fn = "lambda x: x" -> n
      [] fn = "F.silu" -> IF n >= 1 THEN n ELSE 0

Activation(fn, h) == << Elementwise(fn, h[1]), Elementwise(fn, h[2]) >>

----------------------------------------------------------------------------
(* The self-attention collaborator (.multihead_attention): contract only.  *)

\* The attention module as the factory builds it.  With a single key
\* position the softmax weight is 1 whatever the scores, so the attended
\* output is the module's value/output projection of `value`.
NewMultiheadAttention ==
    [kind |-> "MultiheadAttention", W |-> <<<<1, 1>>, <<0, -1>>>>,
     b |-> <<0, 0>>]

\* A stub that returns an all-zero tensor and a marker for its weights.
ZeroAttention ==
    [kind |-> "ZeroAttention", W |-> <<<<0, 0>>, <<0, 0>>>>, b |-> <<0, 0>>]

\* self_attn(query, key, value, attn_bias, key_padding_mask, need_weights,
\* attn_mask) -> (output, weights or None).
self_attn_call(m, query, key, value, attn_bias, key_padding_mask, need_weights, attn_mask) ==
    IF m.kind = "ZeroAttention" THEN <<Zero, "stub_weights">>
    ELSE <<Linear(m, value), IF need_weights THEN "attn_weights" ELSE None>>


----------------------------------------------------------------------------
(* GraphormerGraphEncoderLayer.__init__                                    *)
(*                                                                         *)
(* A construction frame c is [self, trace, raised]: the attributes set so  *)
(* far, the calls made so far (each with the attributes self had when it   *)
(* was made), and the exception raised (NoError while none is).            *)

\* The random initial parameters the modules built by one constructor call
\* come with: one draw of the generator.
ParamInits ==
    { [fc1 |-> LinearA, fc2 |-> LinearB, attn |-> NewMultiheadAttention],
      [fc1 |-> LinearB, fc2 |-> LinearA, attn |-> NewMultiheadAttention] }

\* The arguments of a constructor call, with the draw of the initial
\* parameters.
CtorArgs ==
    [ activation_fn : ActivationNames \cup {"bogus"},
      init_fn : {None, "init_fn"},
      pre_layernorm : BOOLEAN,
      dropout : Rates,
      activation_dropout : Rates,
      init : ParamInits ]

Called(c, op, callArgs) ==
    Append(c.trace, [op |-> op, args |-> callArgs, attrs |-> DOMAIN c.self])

\* self.<attr> = value
SetAttr(self, attr, value) == (attr :> value) @@ self

build_fc1(init) == init

build_fc2(init) == init

build_self_attention(init) == init

\* super().__init__(): nn.Module starts in training mode.
init_super(c, a) ==
    [c EXCEPT !.self = SetAttr(c.self, "training", TRUE),
              !.trace = Called(c, "super().__init__", <<>>)]

\* if init_fn is not None: init_fn()
init_hook(c, a) ==
    IF a.init_fn # None
    THEN [c EXCEPT !.trace = Called(c, "init_fn", <<>>)]
    ELSE c

\* self.embedding_dim ... self.pre_layernorm
init_config(c, a) ==
    [c EXCEPT !.self = SetAttr(SetAttr(SetAttr(SetAttr(SetAttr(SetAttr(@,
                "embedding_dim", Len(Zero)),
                "num_attention_heads", 1),
                "attention_dropout", "0.1"),
                "q_noise", "0.0"),
                "qn_block_size", 8),
                "pre_layernorm", a.pre_layernorm)]

\* self.dropout_module, self.activation_dropout_module
init_dropout(c, a) ==
    [c EXCEPT !.self = SetAttr(SetAttr(@,
                "dropout_module", NewDropout(a.dropout)),
                "activation_dropout_module", NewDropout(a.activation_dropout)),
              !.trace = Append(Called(c, "nn.Dropout", <<a.dropout>>),
                    [op |-> "nn.Dropout", args |-> <<a.activation_dropout>>,
                     attrs |-> DOMAIN c.self \cup {"dropout_module"}])]

\* self.activation_fn = get_activation_fn(activation_fn)
init_activation(c, a) ==
    LET r == get_activation_fn(a.activation_fn)
    IN  IF r.raised # NoError
        THEN [c EXCEPT !.raised = r.raised,
                       !.trace = Called(c, "get_activation_fn", <<a.activation_fn>>)]
        ELSE [c EXCEPT !.self = SetAttr(@, "activation_fn", r.fn),
                       !.trace = Called(c, "get_activation_fn", <<a.activation_fn>>)]

\* self.self_attn = self.build_self_attention(...)
init_self_attn(c, a) ==
    [c EXCEPT !.self = SetAttr(@, "self_attn", build_self_attention(a.init.attn)),
              !.trace = Called(c, "build_self_attention", <<>>)]

\* self.self_attn_layer_norm = nn.LayerNorm(self.embedding_dim)
init_self_attn_layer_norm(c, a) ==
    [c EXCEPT !.self = SetAttr(@, "self_attn_layer_norm", NewLayerNorm),
              !.trace = Called(c, "nn.LayerNorm", <<"self_attn_layer_norm">>)]

\* self.fc1 = self.build_fc1(...)
init_fc1(c, a) ==
    [c EXCEPT !.self = SetAttr(@, "fc1", build_fc1(a.init.fc1)),
              !.trace = Called(c, "build_fc1", <<>>)]

\* self.fc2 = self.build_fc2(...)
init_fc2(c, a) ==
    [c EXCEPT !.self = SetAttr(@, "fc2", build_fc2(a.init.fc2)),
              !.trace = Called(c, "build_fc2", <<>>)]

\* self.final_layer_norm = nn.LayerNorm(self.embedding_dim)
init_final_layer_norm(c, a) ==
    [c EXCEPT !.self = SetAttr(@, "final_layer_norm", NewLayerNorm),
              !.trace = Called(c, "nn.LayerNorm", <<"final_layer_norm">>)]

\* The statements after get_activation_fn, which an exception skips.
init_blocks(c, a) ==
    IF c.raised # NoError THEN c
    ELSE init_final_layer_norm(init_fc2(init_fc1(
            init_self_attn_layer_norm(init_self_attn(c, a), a), a), a), a)

NewObject == [self |-> <<>>, trace |-> <<>>, raised |-> NoError]

\* The hook called where parameter allocation ends instead of where
\* construction begins.
init_with_hook_last(a) ==
    LET c == init_blocks(init_activation(init_dropout(init_config(
                 init_super(NewObject, a), a), a), a), a)
    IN  IF c.raised # NoError THEN c ELSE init_hook(c, a)

__init__(a) ==
    init_blocks(init_activation(init_dropout(init_config(init_hook(
        init_super(NewObject, a), a), a), a), a), a)

----------------------------------------------------------------------------
(* GraphormerGraphEncoderLayer.forward                                     *)
(*                                                                         *)
(* A call frame f holds self, the parameters of the call, the locals x,    *)
(* residual and attn, the keep-masks the three dropout calls of this call  *)
(* draw, and the trace of the calls made on the layer's modules.           *)

NewFrame(self, x, self_attn_bias, self_attn_mask, self_attn_padding_mask, noise) ==
    [ self |-> self, x |-> x, residual |-> Zero, attn |-> None,
      self_attn_bias |-> self_attn_bias, self_attn_mask |-> self_attn_mask,
      self_attn_padding_mask |-> self_attn_padding_mask,
      noise |-> noise, trace |-> <<>> ]

Ev(op, in, out) == [op |-> op, in |-> in, out |-> out]

\* x = <module>(x) for a normalization module of self
CallNorm(f, attr) ==
    LET y == Norm(f.self[attr], f.x)
    IN  [f EXCEPT !.x = y, !.trace = Append(@, Ev(attr, f.x, y))]

\* x = <dropout module>(x), drawing the i-th keep-mask of the call
CallDropout(f, attr, i) ==
    LET y == Dropout(f.self[attr], f.self.training, f.x, f.noise[i])
    IN  [f EXCEPT !.x = y, !.trace = Append(@, Ev(attr, f.x, y))]

\* x = residual + x
AddResidual(f) ==
    LET y == Add(f.residual, f.x)
    IN  [f EXCEPT !.x = y,
                  !.trace = Append(@, [op |-> "add", in |-> f.x,
                                       residual |-> f.residual, out |-> y])]

\* residual = x
forward_132(f) == [f EXCEPT !.residual = f.x]

\* The residual renormalized along with x.
forward_133_renormalized_residual(f) ==
    IF f.self.pre_layernorm
    THEN LET g == CallNorm(f, "self_attn_layer_norm")
         IN  [g EXCEPT !.residual = g.x]
    ELSE f

\* if self.pre_layernorm: x = self.self_attn_layer_norm(x)
forward_133(f) ==
    IF f.self.pre_layernorm THEN CallNorm(f, "self_attn_layer_norm") ELSE f

\* The padding mask and the attention mask passed in each other's place.
forward_135_masks_swapped(f) ==
    LET r == self_attn_call(f.self.self_attn, f.x, f.x, f.x, f.self_attn_bias,
                            f.self_attn_mask, FALSE, f.self_attn_padding_mask)
    IN  [f EXCEPT !.x = r[1], !.attn = r[2],
                  !.trace = Append(@,
                     [op |-> "self_attn", query |-> f.x, key |-> f.x,
                      value |-> f.x, attn_bias |-> f.self_attn_bias,
                      key_padding_mask |-> f.self_attn_mask,
                      need_weights |-> FALSE,
                      attn_mask |-> f.self_attn_padding_mask,
                      out |-> r[1], weights |-> r[2]])]

\* x, attn = self.self_attn(query=x, key=x, value=x, attn_bias=self_attn_bias,
\*     key_padding_mask=self_attn_padding_mask, need_weights=False,
\*     attn_mask=self_attn_mask)
forward_135(f) ==
    LET r == self_attn_call(f.self.self_attn, f.x, f.x, f.x, f.self_attn_bias,
                            f.self_attn_padding_mask, FALSE, f.self_attn_mask)
    IN  [f EXCEPT !.x = r[1], !.attn = r[2],
                  !.trace = Append(@,
                     [op |-> "self_attn", query |-> f.x, key |-> f.x,
                      value |-> f.x, attn_bias |-> f.self_attn_bias,
                      key_padding_mask |-> f.self_attn_padding_mask,
                      need_weights |-> FALSE,
                      attn_mask |-> f.self_attn_mask,
                      out |-> r[1], weights |-> r[2]])]

\* x = self.dropout_module(x)
forward_144(f) == CallDropout(f, "dropout_module", 1)

\* The residual added twice.
forward_145_residual_twice(f) == AddResidual(AddResidual(f))

\* x = residual + x
forward_145(f) == AddResidual(f)

\* The normalization applied on both sides of the residual add.
forward_146_unconditional(f) == CallNorm(f, "self_attn_layer_norm")

\* The normalization applied to the residual instead of the sum.
forward_146_norm_of_residual(f) ==
    IF ~f.self.pre_layernorm
    THEN CallNorm([f EXCEPT !.x = f.residual], "self_attn_layer_norm")
    ELSE f

\* if not self.pre_layernorm: x = self.self_attn_layer_norm(x)
forward_146(f) ==
    IF ~f.self.pre_layernorm THEN CallNorm(f, "self_attn_layer_norm") ELSE f

\* residual = x
forward_149(f) == [f EXCEPT !.residual = f.x]

\* if self.pre_layernorm: x = self.final_layer_norm(x)
forward_150(f) ==
    IF f.self.pre_layernorm THEN CallNorm(f, "final_layer_norm") ELSE f

\* x = self.activation_fn(self.fc1(x))
forward_152(f) ==
    LET h == Linear(f.self.fc1, f.x)
        y == Activation(f.self.activation_fn, h)
    IN  [f EXCEPT !.x = y,
                  !.trace = Append(Append(@, Ev("fc1", f.x, h)),
                                   Ev("activation_fn", h, y))]

\* x = self.activation_dropout_module(x)
forward_153(f) == CallDropout(f, "activation_dropout_module", 2)

\* x = self.fc2(x)
forward_154(f) ==
    LET y == Linear(f.self.fc2, f.x)
    IN  [f EXCEPT !.x = y, !.trace = Append(@, Ev("fc2", f.x, y))]

\* x = self.dropout_module(x)
forward_155(f) == CallDropout(f, "dropout_module", 3)

\* x = residual + x
forward_156(f) == AddResidual(f)

\* if not self.pre_layernorm: x = self.final_layer_norm(x)
forward_157(f) ==
    IF ~f.self.pre_layernorm THEN CallNorm(f, "final_layer_norm") ELSE f

\* The call leaving the module in evaluation mode.
forward_159_leaves_eval_mode(f) ==
    [self |-> [f.self EXCEPT !.training = FALSE], ret |-> <<f.x, f.attn>>,
     trace |-> f.trace]

\* return x, attn
forward_159(f) == [self |-> f.self, ret |-> <<f.x, f.attn>>, trace |-> f.trace]

\* Lines 132-147: the attention sub-layer.
forward_attention_block(f) ==
    forward_146(forward_145(forward_144(forward_135(forward_133(forward_132(f))))))

\* Lines 149-158: the feed-forward sub-layer.
forward_feed_forward_block(f) ==
    forward_157(forward_156(forward_155(forward_154(forward_153(forward_152(
        forward_150(forward_149(f))))))))

forward(self, x, self_attn_bias, self_attn_mask, self_attn_padding_mask, noise) ==
    forward_159(forward_feed_forward_block(forward_attention_block(
        NewFrame(self, x, self_attn_bias, self_attn_mask,
                 self_attn_padding_mask, noise))))

----------------------------------------------------------------------------
(* The layer as a state machine.                                           *)

VARIABLES
    layer,   \* the constructed layer object (its attributes), or NoLayer
    ctor,    \* the constructor call made: its arguments, trace and exception
    call     \* the forward call whose result the caller holds, or NoCall

layerVars == <<layer, ctor, call>>

NoLayer == [absent |-> TRUE]
NoCtor == [absent |-> TRUE]
NoCall == [absent |-> TRUE]

\* layer = GraphormerGraphEncoderLayer(**a)
Construct ==
    /\ ctor = NoCtor
    /\ \E a \in CtorArgs :
         LET c == __init__(a)
         IN  /\ ctor' = [args |-> a, trace |-> c.trace, raised |-> c.raised]
             /\ layer' = IF c.raised = NoError THEN c.self ELSE NoLayer
    /\ UNCHANGED call

\* A test replaces the attention module by the all-zero stub.
StubSelfAttention ==
    /\ layer # NoLayer /\ call = NoCall
    /\ layer.self_attn # ZeroAttention
    /\ layer' = [layer EXCEPT !.self_attn = ZeroAttention]
    /\ UNCHANGED <<ctor, call>>

\* A test replaces both normalization modules by the identity.
StubNorms ==
    /\ layer # NoLayer /\ call = NoCall
    /\ layer.self_attn_layer_norm # IdentityNorm
    /\ layer' = [layer EXCEPT !.self_attn_layer_norm = IdentityNorm,
                              !.final_layer_norm = IdentityNorm]
    /\ UNCHANGED <<ctor, call>>

\* layer.train(mode): nn.Module's switch between training and evaluation.
SetTraining ==
    /\ layer # NoLayer /\ call = NoCall
    /\ layer' = [layer EXCEPT !.training = ~@]
    /\ UNCHANGED <<ctor, call>>

OptionalArgs(name) == {None, name}

\* x, attn = layer(x, self_attn_bias, self_attn_mask, self_attn_padding_mask)
Forward ==
    /\ layer # NoLayer /\ call = NoCall
    /\ \E x \in Inputs,
          bias \in OptionalArgs("attn_bias"),
          mask \in OptionalArgs("attn_mask"),
          kpm \in OptionalArgs("padding_mask"),
          n1 \in Draws(layer.dropout_module, layer.training),
          n2 \in Draws(layer.activation_dropout_module, layer.training),
          n3 \in Draws(layer.dropout_module, layer.training) :
         LET r == forward(layer, x, bias, mask, kpm, <<n1, n2, n3>>)
         IN  /\ layer' = r.self
             /\ call' = [self |-> layer, x |-> x, self_attn_bias |-> bias,
                         self_attn_mask |-> mask,
                         self_attn_padding_mask |-> kpm,
                         ret |-> r.ret, trace |-> r.trace]
    /\ UNCHANGED ctor

\* The caller drops the returned pair; the layer is ready for the next call.
Release ==
    /\ call # NoCall
    /\ call' = NoCall
    /\ UNCHANGED <<layer, ctor>>

----------------------------------------------------------------------------
(* eval_graphormer_lrgb.py                                                 *)

\* Largest number of batches the validation loader yields.
MaxBatches == 2

batch_size == 4

Unset == "<unset>"

\* The entries of the DATASET_INFO literal, in source order.
DATASET_INFO_entries ==
    << [key |-> "PCQM-Contact", name |-> "PCQM-Contact", task |-> "graph"],
       [key |-> "PascalVOC-SP", name |-> "PascalVOC-SP", task |-> "node"],
       [key |-> "COCO-SP", name |-> "COCO-SP", task |-> "node"],
       [key |-> "PCQM-Contact", name |-> "PCQM-Contact", task |-> "link"],
       [key |-> "Peptides-func", name |-> "Peptides-func", task |-> "graph"],
       [key |-> "Peptides-struct", name |-> "Peptides-struct",
        task |-> "regression"] >>

Keys(entries) == {entries[i].key : i \in DOMAIN entries}

Indices(entries, k) == {i \in DOMAIN entries : entries[i].key = k}

\* A dict display in which the first of two equal keys wins.
DictDisplayFirstWins(entries) ==
    [k \in Keys(entries) |->
        entries[CHOOSE i \in Indices(entries, k) :
                    \A j \in Indices(entries, k) : i <= j]]

\* A Python dict display: the entries are stored in order, and a later entry
\* replaces an earlier one with the same key.
DictDisplay(entries) ==
    [k \in Keys(entries) |->
        entries[CHOOSE i \in Indices(entries, k) :
                    \A j \in Indices(entries, k) : i >= j]]

DATASET_INFO == DictDisplay(DATASET_INFO_entries)

\* The values DATASET_NAME may have in the environment.
Environments == Keys(DATASET_INFO_entries) \cup {Unset, "Cora"}

\* os.environ.get("DATASET_NAME", "PCQM-Contact")
environ_get(env, default) == IF env = Unset THEN default ELSE env

\* A batch of the loader: its number of labelled items, whether it carries
\* the attributes y and edge_label, how many items its mask selects and how
\* many of those the model predicts right.
Batches ==
    { b \in [n : 1..batch_size, has_y : BOOLEAN, has_edge_label : BOOLEAN,
             masked : 0..batch_size, hits : 0..batch_size] :
        b.hits <= b.masked /\ b.masked <= b.n }

VARIABLES
    pc,            \* the statement the script is at
    environ,       \* DATASET_NAME in the environment, or Unset
    dataset_name,  \* the module-level globals
    task_type,
    loaded,        \* what main has loaded: the dataset, a model
    todo,          \* the batches the loader has yet to yield
    branches,      \* the branches of the evaluation loop taken so far
    total,
    correct,
    raised         \* the exception that ended the script, or NoError

scriptVars ==
    <<pc, environ, dataset_name, task_type, loaded, todo, branches, total,
      correct, raised>>

vars == <<layer, ctor, call, pc, environ, dataset_name, task_type, loaded,
          todo, branches, total, correct, raised>>

\* dataset_name = os.environ.get("DATASET_NAME", "PCQM-Contact")
ReadEnvironment ==
    /\ pc = "line_13"
    /\ dataset_name' = environ_get(environ, "PCQM-Contact")
    /\ pc' = "line_24"
    /\ UNCHANGED <<environ, task_type, loaded, todo, branches, total, correct,
                   raised>>

\* if dataset_name not in DATASET_INFO: raise ValueError
\* task_type = DATASET_INFO[dataset_name]["task"]
ResolveDataset ==
    /\ pc = "line_24"
    /\ IF dataset_name \notin DOMAIN DATASET_INFO
       THEN /\ raised' = Raise("ValueError",
                               "Unknown or unsupported dataset: {}",
                               dataset_name)
            /\ pc' = "done"
            /\ UNCHANGED task_type
       ELSE /\ task_type' = DATASET_INFO[dataset_name].task
            /\ pc' = "line_32"
            /\ UNCHANGED raised
    /\ UNCHANGED <<environ, dataset_name, loaded, todo, branches, total,
                   correct>>

\* main: if task_type in ["graph", "node", "regression"]: load the
\* validation split; else: raise NotImplementedError
LoadDataset ==
    /\ pc = "line_32"
    /\ IF task_type \in {"graph", "node", "regression"}
       THEN /\ \E n \in 0..MaxBatches : todo' = n
            /\ loaded' = loaded \cup {"val_dataset"}
            /\ pc' = "line_39"
            /\ UNCHANGED raised
       ELSE /\ raised' = Raise("NotImplementedError",
                    "Task type '{}' is not yet supported in this script.",
                    task_type)
            /\ pc' = "done"
            /\ UNCHANGED <<todo, loaded>>
    /\ UNCHANGED <<environ, dataset_name, task_type, branches, total, correct>>

\* main: the finetuned weights if from_pretrained finds them, else the base
\* model's.
LoadModel ==
    /\ pc = "line_39"
    /\ \E found \in BOOLEAN :
         loaded' = loaded \cup {IF found THEN "finetuned" ELSE "base"}
    /\ pc' = "line_53"
    /\ UNCHANGED <<environ, dataset_name, task_type, todo, branches, total,
                   correct, raised>>

\* main: one iteration of `for batch in loader`.
EvalBatch ==
    /\ pc = "line_53" /\ todo > 0
    /\ todo' = todo - 1
    /\ \E b \in Batches :
         IF task_type = "graph"
         THEN /\ branches' = branches \cup {"graph"}
              /\ IF b.has_y
                 THEN /\ b.masked = b.n
                      /\ correct' = correct + b.hits
                      /\ total' = total + b.n
                 ELSE UNCHANGED <<total, correct>>
         ELSE IF task_type = "node"
         THEN /\ branches' = branches \cup {"node"}
              /\ IF b.has_y
                 THEN /\ correct' = correct + b.hits
                      /\ total' = total + b.masked
                 ELSE UNCHANGED <<total, correct>>
         ELSE IF task_type = "edge"
         THEN /\ branches' = branches \cup {"edge"}
              /\ IF b.has_edge_label
                 THEN /\ correct' = correct + b.hits
                      /\ total' = total + b.masked
                 ELSE UNCHANGED <<total, correct>>
         ELSE UNCHANGED <<branches, total, correct>>
    /\ UNCHANGED <<pc, environ, dataset_name, task_type, loaded, raised>>

\* main: the loop is over; print the accuracy or that no label was found.
Report ==
    /\ pc = "line_53" /\ todo = 0
    /\ pc' = IF total > 0 THEN "printed_accuracy" ELSE "printed_no_labels"
    /\ UNCHANGED <<environ, dataset_name, task_type, loaded, todo, branches,
                   total, correct, raised>>

----------------------------------------------------------------------------
(* Specifications.                                                         *)

ScriptIdle ==
    /\ pc = "not_run" /\ environ = Unset /\ dataset_name = None
    /\ task_type = None /\ loaded = {} /\ todo = 0 /\ branches = {}
    /\ total = 0 /\ correct = 0 /\ raised = NoError

\* Construction: nothing is constructed yet.
CtorInit == layer = NoLayer /\ ctor = NoCtor /\ call = NoCall /\ ScriptIdle

CtorNext == Construct /\ UNCHANGED scriptVars

SpecCtor == CtorInit /\ [][CtorNext]_vars

\* The constructor calls that return a layer, made without a hook.
LayerArgs ==
    {a \in CtorArgs : a.init_fn = None /\ __init__(a).raised = NoError}

\* Use of a layer: it is the layer some constructor call returned.
Init ==
    /\ \E a \in LayerArgs :
         /\ ctor = [args |-> a, trace |-> __init__(a).trace,
                    raised |-> NoError]
         /\ layer = __init__(a).self
    /\ call = NoCall
    /\ ScriptIdle

Next ==
    \/ StubSelfAttention /\ UNCHANGED scriptVars
    \/ StubNorms /\ UNCHANGED scriptVars
    \/ SetTraining /\ UNCHANGED scriptVars
    \/ Forward /\ UNCHANGED scriptVars
    \/ Release /\ UNCHANGED scriptVars

Spec == Init /\ [][Next]_vars

\* The script: started with any value of DATASET_NAME, or none.
EvalInit ==
    /\ layer = NoLayer /\ ctor = NoCtor /\ call = NoCall
    /\ pc = "line_13" /\ environ \in Environments /\ dataset_name = None
    /\ task_type = None /\ loaded = {} /\ todo = 0 /\ branches = {}
    /\ total = 0 /\ correct = 0 /\ raised = NoError

EvalNext ==
    \/ ReadEnvironment /\ UNCHANGED layerVars
    \/ ResolveDataset /\ UNCHANGED layerVars
    \/ LoadDataset /\ UNCHANGED layerVars
    \/ LoadModel /\ UNCHANGED layerVars
    \/ EvalBatch /\ UNCHANGED layerVars
    \/ Report /\ UNCHANGED layerVars

SpecEval == EvalInit /\ [][EvalNext]_vars

----------------------------------------------------------------------------
(* Reading the trace of the forward call the caller holds.                 *)

Trace == call.trace

\* The positions in the trace of the calls of op.
At(op) == {i \in DOMAIN Trace : Trace[i].op = op}

First(S) == CHOOSE i \in S : \A j \in S : i <= j

Last(S) == CHOOSE i \in S : \A j \in S : i >= j

The(S) == CHOOSE i \in S : TRUE

PreNorm == call.self.pre_layernorm

\* The residual adds of the attention and of the feed-forward sub-layer.
AttnAdd == Trace[First(At("add"))]

FfnAdd == Trace[Last(At("add"))]

SelfAttnNormCall == Trace[The(At("self_attn_layer_norm"))]

FinalNormCall == Trace[The(At("final_layer_norm"))]

SelfAttnCall == Trace[The(At("self_attn"))]

\* No dropout module of the layer samples during the call.
NoSampling ==
    /\ ~Samples(call.self.dropout_module, call.self.training)
    /\ ~Samples(call.self.activation_dropout_module, call.self.training)

BuiltModules ==
    {"self_attn", "fc1", "fc2", "self_attn_layer_norm", "final_layer_norm"}

\* The positions in the constructor's trace of the calls of the hook.
HookCalls == {i \in DOMAIN ctor.trace : ctor.trace[i].op = "init_fn"}

----------------------------------------------------------------------------
(* Properties.                                                             *)

\* C1: in every forward call each of the two normalizations is applied
\* exactly once, at a place fixed by pre_layernorm alone.  Pre-norm: the
\* self-attention norm is the first call, before self-attention, and the
\* final norm comes after the first residual add, right before fc1.
\* Post-norm: the self-attention norm comes right after the first residual
\* add (and after self-attention), the final norm right after the second
\* residual add, as the last operation of the call.
C1_NormPlacement ==
    call # NoCall =>
        /\ Cardinality(At("self_attn_layer_norm")) = 1
        /\ Cardinality(At("final_layer_norm")) = 1
        /\ Cardinality(At("add")) = 2
        /\ Cardinality(At("self_attn")) = 1
        /\ Cardinality(At("fc1")) = 1
        /\ IF PreNorm
           THEN /\ The(At("self_attn_layer_norm")) = 1
                /\ The(At("self_attn_layer_norm")) < The(At("self_attn"))
                /\ The(At("final_layer_norm")) > First(At("add"))
                /\ The(At("final_layer_norm")) + 1 = The(At("fc1"))
           ELSE /\ The(At("self_attn_layer_norm")) = First(At("add")) + 1
                /\ The(At("self_attn_layer_norm")) > The(At("self_attn"))
                /\ The(At("final_layer_norm")) = Last(At("add")) + 1
                /\ The(At("final_layer_norm")) = Len(Trace)

\* A pre-norm call on a layer with its own LayerNorm modules, in which the
\* normalization changed the tensor it was given.
C1_Witness ==
    /\ call # NoCall /\ PreNorm
    /\ call.self.self_attn_layer_norm.kind = "LayerNorm"
    /\ Trace[1].op = "self_attn_layer_norm"
    /\ Trace[1].out # Trace[1].in
    /\ FinalNormCall.out # FinalNormCall.in

\* C2: under both settings of pre_layernorm the residual added after the
\* attention sub-layer is the call's raw input, and the residual added
\* after the feed-forward sub-layer is the post-attention-block tensor: the
\* output of the self-attention norm in post-norm mode, the sum of the first
\* residual add (the tensor the final norm is then given) in pre-norm mode.
C2_Residuals ==
    call # NoCall =>
        /\ Cardinality(At("add")) = 2
        /\ AttnAdd.residual = call.x
        /\ IF PreNorm
           THEN /\ FfnAdd.residual = AttnAdd.out
                /\ FfnAdd.residual = FinalNormCall.in
           ELSE /\ FfnAdd.residual = SelfAttnNormCall.out
                /\ SelfAttnNormCall.in = AttnAdd.out

\* A pre-norm call whose input the self-attention norm changed, and whose
\* first residual is the input all the same.
C2_Witness ==
    /\ call # NoCall /\ PreNorm
    /\ SelfAttnNormCall.out # call.x
    /\ AttnAdd.residual = call.x
    /\ FinalNormCall.out # FfnAdd.residual

\* C5: every forward call calls self-attention exactly once, with query,
\* key and value the same working tensor (the raw input, or its norm under
\* pre-norm), with the caller's bias, key-padding mask and attention mask
\* as given (absent ones absent), with need_weights false; and the second
\* element it returns is the second element self-attention returned.
C5_AttentionCall ==
    call # NoCall =>
        /\ Cardinality(At("self_attn")) = 1
        /\ SelfAttnCall.query =
              (IF PreNorm THEN SelfAttnNormCall.out ELSE call.x)
        /\ SelfAttnCall.key = SelfAttnCall.query
        /\ SelfAttnCall.value = SelfAttnCall.query
        /\ SelfAttnCall.attn_bias = call.self_attn_bias
        /\ SelfAttnCall.key_padding_mask = call.self_attn_padding_mask
        /\ SelfAttnCall.attn_mask = call.self_attn_mask
        /\ SelfAttnCall.need_weights = FALSE
        /\ call.ret[2] = SelfAttnCall.weights

\* A call with a bias and a padding mask but no attention mask, on a layer
\* whose attention returns something other than None as its second value.
C5_Witness ==
    /\ call # NoCall
    /\ call.self_attn_bias # None
    /\ call.self_attn_padding_mask # None
    /\ call.self_attn_mask = None
    /\ call.ret[2] = "stub_weights"

\* C6: with self-attention replaced by a stub returning the all-zero
\* tensor, the post-attention-block tensor (the second residual) is the
\* self-attention norm of the input in post-norm mode and the raw input in
\* pre-norm mode.
C6_ZeroAttention ==
    (call # NoCall /\ call.self.self_attn = ZeroAttention) =>
        FfnAdd.residual =
            (IF PreNorm THEN call.x
             ELSE Norm(call.self.self_attn_layer_norm, call.x))

\* A post-norm call on the stubbed layer while its dropout samples, with an
\* input the norm changes.
C6_Witness ==
    /\ call # NoCall /\ call.self.self_attn = ZeroAttention
    /\ ~PreNorm
    /\ Samples(call.self.dropout_module, call.self.training)
    /\ call.self.self_attn_layer_norm.kind = "LayerNorm"
    /\ FfnAdd.residual # call.x
    /\ call.x # Zero

\* C7: with both normalization modules the identity and no dropout
\* sampling, the layer that differs only in pre_layernorm returns the same
\* pair for the same arguments.
C7_IdentityNorms ==
    ( /\ call # NoCall
      /\ call.self.self_attn_layer_norm = IdentityNorm
      /\ call.self.final_layer_norm = IdentityNorm
      /\ NoSampling ) =>
        forward([call.self EXCEPT !.pre_layernorm = ~@], call.x,
                call.self_attn_bias, call.self_attn_mask,
                call.self_attn_padding_mask,
                <<AllKept, AllKept, AllKept>>).ret = call.ret

\* A call on a layer with identity norms and real attention, without
\* sampling, whose output differs from its input.
C7_Witness ==
    /\ call # NoCall
    /\ call.self.self_attn_layer_norm = IdentityNorm
    /\ call.self.final_layer_norm = IdentityNorm
    /\ NoSampling
    /\ call.self.self_attn.kind = "MultiheadAttention"
    /\ SelfAttnCall.out # Zero
    /\ call.ret[1] # call.x

\* C8 as stated: with the selector `linear` the feed-forward block (fc1,
\* activation, activation-dropout, fc2) computes exactly fc2(fc1(x)).
C8_Original ==
    (call # NoCall /\ ctor.args.activation_fn = "linear") =>
        Trace[The(At("fc2"))].out =
            Linear(call.self.fc2,
                   Linear(call.self.fc1, Trace[The(At("fc1"))].in))

\* C8, amended: with the selector `linear` the activation returns what fc1
\* returned, and whenever the activation-dropout module does not sample
\* (rate 0, or evaluation mode) the feed-forward block computes exactly
\* fc2(fc1(x)).
C8_LinearFeedForward ==
    (call # NoCall /\ ctor.args.activation_fn = "linear") =>
        /\ Trace[The(At("activation_fn"))].in = Trace[The(At("fc1"))].out
        /\ Trace[The(At("activation_fn"))].out = Trace[The(At("fc1"))].out
        /\ ~Samples(call.self.activation_dropout_module, call.self.training)
             => Trace[The(At("fc2"))].out =
                    Linear(call.self.fc2,
                           Linear(call.self.fc1, Trace[The(At("fc1"))].in))

\* A call on a `linear` layer, its activation dropout not sampling, in
\* which fc1 returned a negative element.
C8_Witness ==
    /\ call # NoCall /\ ctor.args.activation_fn = "linear"
    /\ ~Samples(call.self.activation_dropout_module, call.self.training)
    /\ Trace[The(At("fc1"))].out[1] < 0
    /\ Trace[The(At("fc2"))].out # Trace[The(At("fc1"))].in

\* C9: a forward call changes nothing of the layer: when it has returned,
\* every attribute of the layer is what it was when the call began; and,
\* whatever calls were made, the configuration fields, the activation
\* function, the linear projections and the dropout modules are those the
\* constructor set.
C9_ForwardKeepsLayer ==
    /\ call # NoCall => layer = call.self
    /\ \A attr \in {"embedding_dim", "num_attention_heads",
                    "attention_dropout", "q_noise", "qn_block_size",
                    "pre_layernorm", "activation_fn", "fc1", "fc2",
                    "dropout_module", "activation_dropout_module"} :
          layer[attr] = __init__(ctor.args).self[attr]

\* A forward call has returned on a layer in training mode whose dropout
\* sampled.
C9_Witness ==
    /\ call # NoCall
    /\ layer.training
    /\ Samples(layer.dropout_module, layer.training)
    /\ call.ret[1] # call.x

\* C3: a constructor call with an activation name outside {relu, gelu,
\* tanh, linear, swish} raises a RuntimeError that names the selector and
\* returns no layer (so no default activation, and no forward call to defer
\* the failure to); with a name of the set it raises nothing and returns a
\* layer with an activation function.
C3_ActivationRejected ==
    ctor # NoCtor =>
        IF ctor.args.activation_fn \in ActivationNames
        THEN /\ ctor.raised = NoError
             /\ layer # NoLayer
             /\ layer.activation_fn # None
        ELSE /\ ctor.raised # NoError
             /\ ctor.raised[1] = "RuntimeError"
             /\ ctor.raised[3] = ctor.args.activation_fn
             /\ layer = NoLayer

\* The constructor was called with the name bogus and raised.
C3_Witness ==
    /\ ctor # NoCtor
    /\ ctor.args.activation_fn = "bogus"
    /\ ctor.raised # NoError
    /\ layer = NoLayer

\* C4 as stated: a supplied hook is called exactly once, with no
\* arguments, after the attention module, both linear projections and both
\* normalization modules have been constructed; without a hook, nothing.
C4_Original ==
    (ctor # NoCtor /\ ctor.raised = NoError) =>
        /\ Cardinality(HookCalls) = (IF ctor.args.init_fn # None THEN 1 ELSE 0)
        /\ \A i \in HookCalls :
              /\ ctor.trace[i].args = <<>>
              /\ BuiltModules \subseteq ctor.trace[i].attrs

\* C4, amended: a supplied hook is called exactly once, with no arguments,
\* right after the base-class initializer and before any configuration
\* field or module of the layer is set; without a hook, nothing is called.
C4_HookFirst ==
    ctor # NoCtor =>
        /\ Cardinality(HookCalls) = (IF ctor.args.init_fn # None THEN 1 ELSE 0)
        /\ \A i \in HookCalls :
              /\ i = 2
              /\ ctor.trace[1].op = "super().__init__"
              /\ ctor.trace[i].args = <<>>
              /\ ctor.trace[i].attrs = {"training"}

\* A constructor call with a hook returned a layer with all its modules.
C4_Witness ==
    /\ ctor # NoCtor
    /\ ctor.args.init_fn # None
    /\ ctor.raised = NoError
    /\ BuiltModules \subseteq DOMAIN layer
    /\ ctor.trace[2].op = "init_fn"

\* C10: the script loads the dataset and the model only for a task type
\* among graph, node and regression; any other resolved task type ends in
\* NotImplementedError with nothing loaded; the later "PCQM-Contact" entry
\* (task link) wins, so the default dataset name always ends that way; and
\* the edge branch of the evaluation loop is never taken.
C10_EvalScript ==
    /\ loaded # {} => task_type \in {"graph", "node", "regression"}
    /\ ( /\ task_type \notin {None, "graph", "node", "regression"}
         /\ pc # "line_32" ) =>
            /\ pc = "done" /\ raised # NoError
            /\ raised[1] = "NotImplementedError"
            /\ loaded = {}
    /\ DATASET_INFO["PCQM-Contact"].task = "link"
    /\ ( /\ environ \in {Unset, "PCQM-Contact"}
         /\ pc \notin {"line_13", "line_24", "line_32"} ) =>
            /\ pc = "done" /\ raised # NoError
            /\ raised[1] = "NotImplementedError"
            /\ loaded = {}
    /\ task_type # "edge"
    /\ "edge" \notin branches

\* The script, run without DATASET_NAME, ended in NotImplementedError.
C10_Witness ==
    /\ environ = Unset
    /\ dataset_name = "PCQM-Contact"
    /\ pc = "done"
    /\ raised # NoError
    /\ raised[1] = "NotImplementedError"
    /\ loaded = {}

=============================================================================
